---- MODULE Spec2Model ----
(***************************************************************************)
(* RideSphere: the ride service (createRide / acceptRide over the ride     *)
(* collection), the RabbitMQ wrapper service/rabbit.js, and the captain    *)
(* service's long-poll controller (waitForNewRide and its "new-ride"       *)
(* subscription).                                                          *)
(*                                                                         *)
(* Node runs every callback to its next await without interruption, so one *)
(* action is one such run: an async handler is split at the awaits whose   *)
(* order against other requests matters (the datastore read, the datastore *)
(* write, the publish).                                                    *)
(***************************************************************************)
EXTENDS Integers, Sequences, FiniteSets, TLC

\* ------------------------------------------------------------------ bounds
MaxRides   == 2       \* rides ever inserted
MaxCreates == 2       \* createRide requests ever made (valid or not)
MaxAccepts == 2       \* acceptRide requests ever made
MaxWaiters == 2       \* wait-for-ride requests ever made
MaxTime    == 45000   \* the clock stops advancing past this (ms)
TickMs     == 15000   \* granularity of the clock (ms)
MaxForeign == 1       \* messages another client of the broker ever publishes

\* ------------------------------------------------------- program constants
LONG_POLL_TIMEOUT == 30000    \* req.setTimeout(30000, ...)
RETRY_DELAY       == 5000     \* setTimeout(connect, 5000)

Users        == {"u1"}
Drivers      == {"c1", "c2"}
Pickups      == {"", "123 Main St"}    \* "" is the missing field
Destinations == {"", "456 Oak Ave"}

Procs  == {"ride", "captain"}
Queues == {"new-ride", "ride-accepted"}

\* The two listings of service/rabbit.js: the ride service's file, and the
\* listing of the design document ("same across services").  The ride service
\* runs its own file; the captain service's file is one of the two.
SRC == "ride/service/rabbit.js"
LLD == "SYSTEM_DESIGN_LLD.md"

\* ObjectIds the datastore hands out, in order, as their hex strings.
ObjectIds == <<"r1", "r2", "r3", "r4">>

CreateIds == 1..MaxCreates
AcceptIds == 1..MaxAccepts
WaitIds   == 1..MaxWaiters

VARIABLES
    rides,            \* the ride collection, in insertion order
    creates,          \* createRide requests: position, local document, response
    accepts,          \* acceptRide requests: position, local document, response
    now,              \* the clock (ms)
    brokerUp,         \* whether the RabbitMQ broker accepts connections
    booted,           \* per process: start-up has called connect()
    channel,          \* per process: rabbit.js `channel`
    retryTimers,      \* per process: the armed setTimeout(connect, 5000)
                      \* timers, as the time each still has to run (ms)
    rabbit,           \* per process: which listing of rabbit.js it runs
    consumers,        \* per process: queues its channel consumes
    registered,       \* per process: queues for which subscribeToQueue
                      \* reached channel.consume(queueName, ...)
    controllerLoaded, \* captain.controller.js has run its module-level code
    queues,           \* broker: the messages held by each queue
    unacked,          \* broker: messages delivered to the captain service's
                      \* consumer and not acknowledged
    foreign,          \* messages published by other clients of the broker
    replica,          \* a second process of the captain service: whether it
                      \* consumes "new-ride", the messages it was given
    sent,             \* history: every message handed to sendToQueue
    pendingRequests,  \* captain.controller.js `pendingRequests`
    waits             \* wait-for-ride requests: timer, calls made on `res`

vars == <<rides, creates, accepts, now, brokerUp, booted, channel, retryTimers,
          rabbit, consumers, registered, controllerLoaded, queues, unacked,
          foreign, replica, sent, pendingRequests, waits>>

rideVars    == <<rides, creates, accepts>>
busVars     == <<brokerUp, booted, channel, retryTimers, consumers, registered>>
brokerVars  == <<queues, unacked, foreign, replica>>
captainVars == <<controllerLoaded, pendingRequests, waits>>

\* ------------------------------------------------------------- JS values
\* A JS value is [t |-> its type, v |-> its content].
JsString(s)   == [t |-> "string",   v |-> s]
JsObjectId(h) == [t |-> "ObjectId", v |-> h]
JsDate(ms)    == [t |-> "Date",     v |-> ToString(ms)]
JsNull        == [t |-> "null",     v |-> ""]
JsObject(f)   == [t |-> "object",   v |-> f]
\* A string whose characters are the JSON encoding of the fields f.
JsonText(f)   == [t |-> "jsontext", v |-> f]
\* The bytes of the string s (UTF-8).
Bytes(s)      == [t |-> "Buffer",   v |-> s]

\* What JSON.stringify writes for one field value: ObjectId and Date have a
\* toJSON() that yields a string (the hex id, the ISO timestamp).
ToJSON(x) ==
    IF x.t \in {"ObjectId", "Date"} THEN JsString(x.v) ELSE x

JSONstringify(obj) == JsonText([f \in DOMAIN obj.v |-> ToJSON(obj.v[f])])

\* JSON.parse(x): x is first converted to a string.  A string holding a JSON
\* encoding parses to its object; an object converts to "[object Object]",
\* which is no JSON text, and JSON.parse throws SyntaxError.
JSONparse(x) ==
    IF x.t = "jsontext"
    THEN [ok |-> TRUE,  value |-> JsObject(x.v)]
    ELSE [ok |-> FALSE, value |-> JsNull]

BufferFrom(s)     == Bytes(s)
BufferToString(b) == b.v

\* ------------------------------------------------------------- datastore
NoResponse == [code |-> 0, message |-> ""]
Response(c, m) == [code |-> c, message |-> m]

NoDoc == [_id |-> "", user |-> "", captain |-> "null", pickup |-> "",
          destination |-> "", status |-> "", createdAt |-> 0]

\* new rideModel({user, pickup, destination, status: "requested"}) with the
\* schema defaults (captain: null), _id and createdAt as save() stores them.
NewRide(id, user, pickup, destination, at) ==
    [_id |-> id, user |-> user, captain |-> "null", pickup |-> pickup,
     destination |-> destination, status |-> "requested", createdAt |-> at]

\* A lookup that yields the first stored ride whatever the id.
FindFirst(id) == IF rides # <<>> THEN 1 ELSE 0

\* rideModel.findById(id): the index of the stored ride, 0 for null.
FindById(id) ==
    IF \E n \in DOMAIN rides : rides[n]._id = id
    THEN CHOOSE n \in DOMAIN rides : rides[n]._id = id
    ELSE 0

Init ==
    /\ rides = <<>>
    /\ creates = [i \in CreateIds |-> [pc |-> "idle", ride |-> NoDoc,
                                       log |-> "", res |-> NoResponse]]
    /\ accepts = [i \in AcceptIds |-> [pc |-> "idle", rideId |-> "", captainId |-> "",
                                       ride |-> NoDoc, log |-> "", res |-> NoResponse]]
    /\ now = 0
    /\ brokerUp \in BOOLEAN
    /\ booted = [p \in Procs |-> FALSE]
    /\ channel = [p \in Procs |-> "undefined"]
    /\ retryTimers = [p \in Procs |-> <<>>]
    /\ rabbit \in {[p \in Procs |-> IF p = "ride" THEN SRC ELSE l] : l \in {SRC, LLD}}
    /\ consumers = [p \in Procs |-> {}]
    /\ registered = [p \in Procs |-> {}]
    /\ controllerLoaded = FALSE
    /\ queues = [q \in Queues |-> <<>>]
    /\ unacked = <<>>
    /\ foreign = 0
    /\ replica = [subscribed |-> FALSE, consumed |-> 0]
    /\ sent = <<>>
    /\ pendingRequests = <<>>
    /\ waits = [w \in WaitIds |-> [timer |-> "unset", t0 |-> 0, calls |-> <<>>,
                                   closed |-> FALSE]]


\* ------------------------------------------------------ service/rabbit.js
\* connect() whose catch schedules nothing.
connectOnce(p, ch, timers) ==
    IF brokerUp
    THEN [channel |-> [ch EXCEPT ![p] = "open"], retryTimers |-> timers]
    ELSE [channel |-> ch, retryTimers |-> timers]

\* connect(): amqp.connect and createChannel succeed when the broker is up and
\* `channel` is the new channel; otherwise the catch arms setTimeout(connect,
\* 5000).  Returns the new <<channel, retryTimers>> of process p.
connect(p, ch, timers) ==
    IF brokerUp
    THEN [channel |-> [ch EXCEPT ![p] = "open"], retryTimers |-> timers]
    ELSE [channel |-> ch, retryTimers |-> [timers EXCEPT ![p] = Append(@, RETRY_DELAY)]]

\* Start-up of a service calls connect() once.
Boot(p) ==
    /\ ~booted[p]
    /\ booted' = [booted EXCEPT ![p] = TRUE]
    /\ LET c == connect(p, channel, retryTimers) IN
         /\ channel' = c.channel
         /\ retryTimers' = c.retryTimers
    /\ UNCHANGED <<brokerUp, consumers, registered, rabbit, sent, now>>
    /\ UNCHANGED <<brokerVars, rideVars, captainVars>>

\* The oldest timer armed by setTimeout(connect, 5000) has run its 5000 ms: it
\* fires and calls connect().
RetryConnect(p) ==
    /\ retryTimers[p] # <<>>
    /\ Head(retryTimers[p]) = 0
    /\ LET c == connect(p, channel, [retryTimers EXCEPT ![p] = Tail(@)]) IN
         /\ channel' = c.channel
         /\ retryTimers' = c.retryTimers
    /\ UNCHANGED <<brokerUp, booted, consumers, registered, rabbit, sent, now>>
    /\ UNCHANGED <<brokerVars, rideVars, captainVars>>

\* A message the broker holds: its content and whether sendToQueue was given
\* { persistent: true }.
Message(content, persistent) == [content |-> content, persistent |-> persistent]

\* The messages of the sequence msgs the broker still holds after a restart.
SurvivingRestart(msgs) == SelectSeq(msgs, LAMBDA m : m.persistent)

\* The error handler connect() registers on the connection: the design
\* document's listing arms setTimeout(connect, 5000); the ride service's file
\* registers none.
OnConnectionError(listing, timers) ==
    IF listing = LLD THEN Append(timers, RETRY_DELAY) ELSE timers

\* The broker stops: every open channel is closed (the variable keeps the dead
\* channel object) and its consumers are gone; of the messages it held, ready
\* or unacknowledged, only the persistent ones are kept.
BrokerDown ==
    /\ brokerUp
    /\ brokerUp' = FALSE
    /\ channel' = [p \in Procs |-> IF channel[p] = "open" THEN "closed" ELSE channel[p]]
    /\ retryTimers' = [p \in Procs |->
          IF channel[p] = "open"
          THEN OnConnectionError(rabbit[p], retryTimers[p]) ELSE retryTimers[p]]
    /\ consumers' = [p \in Procs |-> {}]
    /\ queues' = [q \in Queues |->
          SurvivingRestart(IF q = "new-ride" THEN unacked \o queues[q] ELSE queues[q])]
    /\ unacked' = <<>>
    /\ replica' = [replica EXCEPT !.subscribed = FALSE]
    /\ UNCHANGED <<booted, registered, rabbit, foreign, sent, now>>
    /\ UNCHANGED <<rideVars, captainVars>>

BrokerUp ==
    /\ ~brokerUp
    /\ brokerUp' = TRUE
    /\ UNCHANGED <<booted, channel, retryTimers, consumers, registered, rabbit, sent, now>>
    /\ UNCHANGED <<brokerVars, rideVars, captainVars>>

\* What publishToQueue logs for a channel in state ch: "" when it sends.
\* No channel: "Channel not available" and return.  A closed channel:
\* assertQueue throws and the catch logs.
PublishLog(ch) ==
    IF ch = "undefined" THEN "Channel not available"
    ELSE IF ch = "closed" THEN "Error publishing to queue"
    ELSE ""

\* publishToQueue that sends whatever the state of the channel.
publishToQueueAnyway(queueName, message) ==
    [queues |-> [queues EXCEPT ![queueName] =
                    Append(@, Message(BufferFrom(message), FALSE))],
     sent   |-> Append(sent, [queue |-> queueName, content |-> BufferFrom(message),
                              durable |-> FALSE, persistent |-> FALSE])]

\* publishToQueue(queueName, message) of the ride service: the new
\* <<queues, sent>>.  assertQueue(queueName) is given no { durable: true } and
\* sendToQueue(queueName, Buffer.from(message)) no { persistent: true }.
publishToQueue(queueName, message) ==
    IF PublishLog(channel["ride"]) = ""
    THEN [queues |-> [queues EXCEPT ![queueName] =
                         Append(@, Message(BufferFrom(message), FALSE))],
          sent   |-> Append(sent, [queue |-> queueName, content |-> BufferFrom(message),
                                   durable |-> FALSE, persistent |-> FALSE])]
    ELSE [queues |-> queues, sent |-> sent]

\* Another client of the broker publishes a message that is no JSON text to
\* "new-ride".
OtherPublisher ==
    /\ brokerUp
    /\ foreign < MaxForeign
    /\ foreign' = foreign + 1
    /\ queues' = [queues EXCEPT !["new-ride"] =
                     Append(@, Message(Bytes(JsString("not json")), FALSE))]
    /\ UNCHANGED <<unacked, replica, sent, now>>
    /\ UNCHANGED <<busVars, rabbit, rideVars, captainVars>>

\* ------------------------------------------- ride/controllers/ride.controller.js
\* rideData with pickup and destination taken from each other's field.
RideDataSwapped(ride) ==
    JsObject([rideId      |-> JsObjectId(ride._id),
              userId      |-> JsObjectId(ride.user),
              pickup      |-> JsString(ride.destination),
              destination |-> JsString(ride.pickup),
              status      |-> JsString(ride.status),
              createdAt   |-> JsDate(ride.createdAt)])

\* The rideData object createRide publishes.
RideData(ride) ==
    JsObject([rideId      |-> JsObjectId(ride._id),
              userId      |-> JsObjectId(ride.user),
              pickup      |-> JsString(ride.pickup),
              destination |-> JsString(ride.destination),
              status      |-> JsString(ride.status),
              createdAt   |-> JsDate(ride.createdAt)])

\* The accepted event with the rider in place of the captain.
AcceptedDataOfUser(ride) ==
    JsObject([rideId    |-> JsObjectId(ride._id),
              captainId |-> JsObjectId(ride.user),
              status    |-> JsString("accepted")])

\* The object acceptRide publishes.
AcceptedData(ride) ==
    JsObject([rideId    |-> JsObjectId(ride._id),
              captainId |-> JsObjectId(ride.captain),
              status    |-> JsString("accepted")])

\* A validation that looks at the pickup only.
MissingPickup(pickup, destination) == pickup = ""

\* `!pickup || !destination`
MissingField(pickup, destination) == pickup = "" \/ destination = ""

\* createRide up to `await ride.save()`: validation, then the insert.
CreateRideSave(i, user, pickup, destination) ==
    /\ creates[i].pc = "idle"
    /\ \A j \in CreateIds : j < i => creates[j].pc # "idle"
    /\ IF MissingField(pickup, destination)
       THEN /\ creates' = [creates EXCEPT ![i].pc = "done",
                   ![i].res = Response(400, "Pickup and destination are required")]
            /\ UNCHANGED rides
       ELSE /\ Len(rides) < MaxRides
            /\ LET ride == NewRide(ObjectIds[Len(rides) + 1], user, pickup,
                                   destination, now) IN
                 /\ rides' = Append(rides, ride)
                 /\ creates' = [creates EXCEPT ![i].pc = "saved", ![i].ride = ride]
    /\ UNCHANGED <<accepts, now, queues, unacked, foreign, replica, sent>>
    /\ UNCHANGED <<busVars, rabbit, captainVars>>

\* createRide after the save: publish rideData, answer 201.
CreateRidePublish(i) ==
    /\ creates[i].pc = "saved"
    /\ LET p == publishToQueue("new-ride", JSONstringify(RideData(creates[i].ride))) IN
         /\ queues' = p.queues
         /\ sent' = p.sent
    /\ creates' = [creates EXCEPT ![i].pc = "done",
                      ![i].log = PublishLog(channel["ride"]),
                      ![i].res = Response(201, "Ride created and published")]
    /\ UNCHANGED <<rides, accepts, now, unacked, foreign, replica>>
    /\ UNCHANGED <<busVars, rabbit, captainVars>>

\* `Ride is already ${ride.status}`
AlreadyMessage(status) ==
    CASE status = "accepted"  -> "Ride is already accepted"
      [] status = "started"   -> "Ride is already started"
      [] status = "completed" -> "Ride is already completed"
      [] status = "cancelled" -> "Ride is already cancelled"
      [] OTHER                -> "Ride is already requested"

\* A check that also lets an accepted ride through.
StillAvailableOrAccepted(ride) == ride.status \in {"requested", "accepted"}

\* `ride.status !== "requested"` is false: the ride is still available.
StillAvailable(ride) == ride.status = "requested"

\* The update with the status after next: a ride that skips "accepted".
AcceptUpdateStarted(ride, captainId) ==
    [ride EXCEPT !.captain = captainId, !.status = "started"]

\* An update that sets the status and leaves the captain.
AcceptUpdateStatusOnly(ride, captainId) ==
    [ride EXCEPT !.status = "accepted"]

\* ride.captain = req.captain.id; ride.status = "accepted";
AcceptUpdate(ride, captainId) ==
    [ride EXCEPT !.captain = captainId, !.status = "accepted"]

\* A save that writes the modified paths to every stored document.
SaveAll(stored, ride) ==
    [n \in DOMAIN stored |->
        [stored[n] EXCEPT !.captain = ride.captain, !.status = ride.status]]

\* ride.save() of a loaded document: one update of the modified paths of the
\* document with that _id, whatever that document holds by then.
SaveModified(stored, ride) ==
    [n \in DOMAIN stored |->
        IF stored[n]._id = ride._id
        THEN [stored[n] EXCEPT !.captain = ride.captain, !.status = ride.status]
        ELSE stored[n]]

\* acceptRide up to `await ride.save()`: validation, findById, the status
\* check, the changes to the loaded document.
AcceptRideFind(i, captainId, rideId) ==
    /\ accepts[i].pc = "idle"
    /\ \A j \in AcceptIds : j < i => accepts[j].pc # "idle"
    /\ LET n   == FindById(rideId)
           req == [accepts[i] EXCEPT !.rideId = rideId, !.captainId = captainId]
       IN accepts' = [accepts EXCEPT ![i] =
           IF rideId = ""
           THEN [req EXCEPT !.pc = "done",
                    !.res = Response(400, "Ride ID is required")]
           ELSE IF n = 0
           THEN [req EXCEPT !.pc = "done",
                    !.res = Response(404, "Ride not found")]
           ELSE IF ~StillAvailable(rides[n])
           THEN [req EXCEPT !.pc = "done", !.ride = rides[n],
                    !.res = Response(400, AlreadyMessage(rides[n].status))]
           ELSE [req EXCEPT !.pc = "saving",
                    !.ride = AcceptUpdate(rides[n], captainId)]]
    /\ UNCHANGED <<rides, creates, now, queues, unacked, foreign, replica, sent>>
    /\ UNCHANGED <<busVars, rabbit, captainVars>>

\* The write of `await ride.save()` reaches the datastore.
AcceptRideSave(i) ==
    /\ accepts[i].pc = "saving"
    /\ rides' = SaveModified(rides, accepts[i].ride)
    /\ accepts' = [accepts EXCEPT ![i].pc = "saved"]
    /\ UNCHANGED <<creates, now, queues, unacked, foreign, replica, sent>>
    /\ UNCHANGED <<busVars, rabbit, captainVars>>

\* acceptRide after the save: publish, answer 200.
AcceptRidePublish(i) ==
    /\ accepts[i].pc = "saved"
    /\ LET p == publishToQueue("ride-accepted",
                               JSONstringify(AcceptedData(accepts[i].ride))) IN
         /\ queues' = p.queues
         /\ sent' = p.sent
    /\ accepts' = [accepts EXCEPT ![i].pc = "done",
                      ![i].log = PublishLog(channel["ride"]),
                      ![i].res = Response(200, "Ride accepted successfully")]
    /\ UNCHANGED <<rides, creates, now, unacked, foreign, replica>>
    /\ UNCHANGED <<busVars, rabbit, captainVars>>


\* ------------------------------------ captain/controllers/captain.controller.js
\* The values the controller handles: the response object of waiter w, the
\* request object of waiter w (what req.setTimeout returns), and the entry
\* { res, timeoutId } pushed on pendingRequests.
ResOf(w) == [kind |-> "ServerResponse",  id |-> w]
ReqOf(w) == [kind |-> "IncomingMessage", id |-> w]
Entry(w) == [kind |-> "Object", id |-> w, res |-> ResOf(w), timeoutId |-> ReqOf(w)]

\* a === b for two objects: the same object.
StrictEquals(a, b) == a.kind = b.kind /\ a.id = b.id

\* Array.prototype.indexOf: the first position whose element is strictly equal
\* to x, 0 when there is none (the code's -1).
IndexOf(arr, x) ==
    IF \E k \in DOMAIN arr : StrictEquals(arr[k], x)
    THEN CHOOSE k \in DOMAIN arr :
            /\ StrictEquals(arr[k], x)
            /\ \A j \in 1..(k - 1) : ~StrictEquals(arr[j], x)
    ELSE 0

\* arr.splice(k, 1)
Splice(arr, k) == [j \in 1..(Len(arr) - 1) |-> IF j < k THEN arr[j] ELSE arr[j + 1]]

\* res.headersSent
HeadersSent(ws, w) == ws[w].calls # <<>>

\* clearTimeout(handle): disarms the timer `handle` names; any value that is
\* not a timer is ignored.
ClearTimeout(ws, handle) ==
    IF handle.kind = "Timeout"
    THEN [ws EXCEPT ![handle.id].timer = "cleared"]
    ELSE ws

\* The body of pendingRequests.forEach in the "new-ride" handler, over the
\* entries still to visit: res.json(...) throws once the response's headers
\* are sent, which ends the loop; otherwise the response is written and
\* clearTimeout is given the entry's timeoutId, which is what req.setTimeout
\* returned: the request.
RECURSIVE NotifyAll(_, _, _)
NotifyAll(entries, ws, rideData) ==
    IF entries = <<>> THEN [waits |-> ws, threw |-> FALSE]
    ELSE LET req  == Head(entries)
             w    == req.res.id
             call == [status |-> 200, message |-> "New ride available",
                      ride |-> rideData]
         IN IF HeadersSent(ws, w)
            THEN [waits |-> [ws EXCEPT ![w].calls = Append(@, call)], threw |-> TRUE]
            ELSE NotifyAll(Tail(entries),
                           ClearTimeout([ws EXCEPT ![w].calls = Append(@, call)],
                                        req.timeoutId),
                           rideData)

\* The handler given to subscribeToQueue("new-ride", ...): the new
\* <<pendingRequests, waits>>.  Everything is inside try/catch: a throw skips
\* the rest, `pendingRequests.length = 0` included.
OnNewRide(data) ==
    LET parsed == JSONparse(data) IN
    IF ~parsed.ok
    THEN [pendingRequests |-> pendingRequests, waits |-> waits]
    ELSE LET r == NotifyAll(pendingRequests, waits, parsed.value) IN
         [pendingRequests |-> IF r.threw THEN pendingRequests ELSE <<>>,
          waits |-> r.waits]

\* The prefetch count of the channel after subscribeToQueue: the design
\* document's listing calls channel.prefetch(1); the ride service's file
\* makes no such call and the channel keeps 0, which is no limit.
Prefetch(listing) == IF listing = LLD THEN 1 ELSE 0

\* The consume callback of subscribeToQueue throws before it reaches the
\* handler: the ride service's file parses the content itself, outside any
\* try, and JSON.parse throws on a content that is no JSON text.
ConsumeThrows(listing, msg) ==
    listing = SRC /\ ~JSONparse(BufferToString(msg.content)).ok

\* What the consume callback of subscribeToQueue passes to the handler: the
\* ride service's file parses the content, the design document's passes the
\* string.
Delivered(listing, msg) ==
    IF listing = SRC
    THEN JSONparse(BufferToString(msg.content)).value
    ELSE BufferToString(msg.content)

\* A timeout that is due at once.
TimerDueAtOnce(w) == now >= waits[w].t0

\* The timeout armed by req.setTimeout(30000, ...) at t0 is due.
TimerDue(w) == now >= waits[w].t0 + LONG_POLL_TIMEOUT

\* waitForNewRide: arm the request's timeout, push { res, timeoutId }.
WaitForNewRide(w) ==
    /\ waits[w].timer = "unset"
    /\ \A v \in WaitIds : v < w => waits[v].timer # "unset"
    /\ now + LONG_POLL_TIMEOUT <= MaxTime
    /\ waits' = [waits EXCEPT ![w].timer = "armed", ![w].t0 = now]
    /\ pendingRequests' = Append(pendingRequests, Entry(w))
    /\ UNCHANGED <<controllerLoaded, now, queues, unacked, foreign, replica, sent>>
    /\ UNCHANGED <<busVars, rabbit, rideVars>>

\* The callback of req.setTimeout(30000, ...): look `res` up in
\* pendingRequests, remove it when found, answer 204.
Timeout(w) ==
    /\ waits[w].timer = "armed"
    /\ TimerDue(w)
    /\ LET index == IndexOf(pendingRequests, ResOf(w)) IN
         pendingRequests' = IF index > 0 THEN Splice(pendingRequests, index)
                            ELSE pendingRequests
    /\ waits' = [waits EXCEPT ![w].timer = "fired",
                    ![w].calls = Append(@, [status |-> 204, message |-> "",
                                            ride |-> JsNull])]
    /\ UNCHANGED <<controllerLoaded, now, queues, unacked, foreign, replica, sent>>
    /\ UNCHANGED <<busVars, rabbit, rideVars>>

\* subscribeToQueue that calls connect() whenever there is no channel.
SubscribeConnectsAlways(listing, ch) == ch = "undefined"

\* subscribeToQueue calls connect() itself: the design document's listing does
\* when there is no channel (`if (!channel) await connect()`); the ride
\* service's file logs "Channel not available" and returns.
SubscribeConnects(listing, ch) == listing = LLD /\ ch = "undefined"

\* The captain's client closes the connection of its pending request w.
\* waitForNewRide registers no "close" or "aborted" listener, so no code of
\* the controller runs: pendingRequests keeps the entry.  Whether the
\* request's timeout survives the socket is decided by the HTTP server, not
\* by the controller: it stays armed or is disarmed.
Disconnect(w) ==
    /\ waits[w].timer = "armed"
    /\ waits[w].calls = <<>>
    /\ ~waits[w].closed
    /\ \E t \in {"armed", "cleared"} :
          waits' = [waits EXCEPT ![w].closed = TRUE, ![w].timer = t]
    /\ UNCHANGED <<controllerLoaded, pendingRequests, now, queues, unacked, foreign, replica, sent>>
    /\ UNCHANGED <<busVars, rabbit, rideVars>>

\* Loading captain.controller.js runs subscribeToQueue("new-ride", handler).
\* The ride service's file returns when there is no channel; the design
\* document's awaits connect() first.  assertQueue on a missing or closed
\* channel throws into the catch; on an open channel the consumer is
\* registered.
LoadController ==
    /\ ~controllerLoaded
    /\ controllerLoaded' = TRUE
    /\ LET c == IF SubscribeConnects(rabbit["captain"], channel["captain"])
                THEN connect("captain", channel, retryTimers)
                ELSE [channel |-> channel, retryTimers |-> retryTimers]
       IN /\ channel' = c.channel
          /\ retryTimers' = c.retryTimers
          /\ consumers' = IF c.channel["captain"] = "open"
                          THEN [consumers EXCEPT !["captain"] = @ \cup {"new-ride"}]
                          ELSE consumers
          /\ registered' = IF c.channel["captain"] = "open"
                           THEN [registered EXCEPT !["captain"] = @ \cup {"new-ride"}]
                           ELSE registered
    /\ UNCHANGED <<brokerUp, booted, rabbit, queues, unacked, foreign, replica, sent, now>>
    /\ UNCHANGED <<rideVars, pendingRequests, waits>>

\* The broker delivers the oldest "new-ride" message to the captain service's
\* consumer, unless the consumer already holds as many unacknowledged
\* messages as its prefetch count allows.  The consume callback runs the
\* handler and then channel.ack(msg); when it throws before that line the
\* message stays unacknowledged.
DeliverNewRide ==
    /\ "new-ride" \in consumers["captain"]
    /\ queues["new-ride"] # <<>>
    /\ Prefetch(rabbit["captain"]) = 0 \/ Len(unacked) < Prefetch(rabbit["captain"])
    /\ LET msg == Head(queues["new-ride"]) IN
         IF ConsumeThrows(rabbit["captain"], msg)
         THEN /\ unacked' = Append(unacked, msg)
              /\ UNCHANGED <<pendingRequests, waits>>
         ELSE /\ LET h == OnNewRide(Delivered(rabbit["captain"], msg)) IN
                   /\ pendingRequests' = h.pendingRequests
                   /\ waits' = h.waits
              /\ UNCHANGED unacked
    /\ queues' = [queues EXCEPT !["new-ride"] = Tail(@)]
    /\ UNCHANGED <<controllerLoaded, now, foreign, replica, sent>>
    /\ UNCHANGED <<busVars, rabbit, rideVars>>

\* A second process of the captain service, connected to the broker, loads
\* its controller: its subscribeToQueue("new-ride", handler) adds a consumer
\* to the same queue.
ReplicaLoadController ==
    /\ brokerUp
    /\ ~replica.subscribed
    /\ replica' = [replica EXCEPT !.subscribed = TRUE]
    /\ UNCHANGED <<queues, unacked, foreign, sent, now>>
    /\ UNCHANGED <<busVars, rabbit, rideVars, captainVars>>

\* The broker delivers the oldest "new-ride" message to the second process's
\* consumer: a message of a queue goes to one of the queue's consumers.  Its
\* handler answers the requests pending in that process.
ReplicaDeliverNewRide ==
    /\ replica.subscribed
    /\ queues["new-ride"] # <<>>
    /\ queues' = [queues EXCEPT !["new-ride"] = Tail(@)]
    /\ replica' = [replica EXCEPT !.consumed = @ + 1]
    /\ UNCHANGED <<unacked, foreign, sent, now>>
    /\ UNCHANGED <<busVars, rabbit, rideVars, captainVars>>

\* The timers of the sequence timers after ms more milliseconds.
RunTimers(timers, ms) == [k \in DOMAIN timers |-> IF timers[k] > ms THEN timers[k] - ms ELSE 0]

\* Time passes: the clock advances up to MaxTime, the armed timers run on.
Tick ==
    /\ now < MaxTime \/ (\E p \in Procs : \E k \in DOMAIN retryTimers[p] : retryTimers[p][k] > 0)
    /\ now' = IF now < MaxTime THEN now + TickMs ELSE now
    /\ retryTimers' = [p \in Procs |-> RunTimers(retryTimers[p], TickMs)]
    /\ UNCHANGED <<brokerUp, booted, channel, consumers, registered, rabbit, sent>>
    /\ UNCHANGED <<brokerVars, rideVars, captainVars>>

Next ==
    \/ \E p \in Procs : Boot(p)
    \/ \E p \in Procs : RetryConnect(p)
    \/ BrokerDown
    \/ BrokerUp
    \/ \E i \in CreateIds, u \in Users, pk \in Pickups, d \in Destinations :
          CreateRideSave(i, u, pk, d)
    \/ \E i \in CreateIds : CreateRidePublish(i)
    \/ \E i \in AcceptIds, c \in Drivers, r \in {""} \cup {ObjectIds[n] : n \in 1..MaxRides} :
          AcceptRideFind(i, c, r)
    \/ \E i \in AcceptIds : AcceptRideSave(i)
    \/ \E i \in AcceptIds : AcceptRidePublish(i)
    \/ LoadController
    \/ \E w \in WaitIds : WaitForNewRide(w)
    \/ \E w \in WaitIds : Timeout(w)
    \/ \E w \in WaitIds : Disconnect(w)
    \/ OtherPublisher
    \/ DeliverNewRide
    \/ ReplicaLoadController
    \/ ReplicaDeliverNewRide
    \/ Tick

\* The ride service's requests, over a time too short for a retry timer of
\* connect() to run out.
RideNext ==
    \/ Boot("ride")
    \/ BrokerDown
    \/ BrokerUp
    \/ \E i \in CreateIds, u \in Users, pk \in Pickups, d \in Destinations :
          CreateRideSave(i, u, pk, d)
    \/ \E i \in CreateIds : CreateRidePublish(i)
    \/ \E i \in AcceptIds, c \in Drivers, r \in {""} \cup {ObjectIds[n] : n \in 1..MaxRides} :
          AcceptRideFind(i, c, r)
    \/ \E i \in AcceptIds : AcceptRideSave(i)
    \/ \E i \in AcceptIds : AcceptRidePublish(i)

\* The ride service alone: the captain service never starts.
RideInit == Init /\ rabbit["captain"] = SRC

SpecRide == RideInit /\ [][RideNext]_vars

CaptainNext ==
    \/ \E p \in Procs : Boot(p)
    \/ \E p \in Procs : RetryConnect(p)
    \/ BrokerDown
    \/ BrokerUp
    \/ \E i \in CreateIds, u \in Users, pk \in Pickups, d \in Destinations :
          CreateRideSave(i, u, pk, d)
    \/ \E i \in CreateIds : CreateRidePublish(i)
    \/ LoadController
    \/ \E w \in WaitIds : WaitForNewRide(w)
    \/ \E w \in WaitIds : Timeout(w)
    \/ DeliverNewRide
    \/ Tick

SpecCaptain == Init /\ [][CaptainNext]_vars

\* The same two services with a broker that stays up.
WaitNext ==
    \/ \E p \in Procs : Boot(p)
    \/ \E i \in CreateIds, u \in Users, pk \in Pickups, d \in Destinations :
          CreateRideSave(i, u, pk, d)
    \/ \E i \in CreateIds : CreateRidePublish(i)
    \/ LoadController
    \/ \E w \in WaitIds : WaitForNewRide(w)
    \/ \E w \in WaitIds : Timeout(w)
    \/ DeliverNewRide
    \/ Tick

\* The event loop runs a timer callback that is due, and time passes.
WaitInit == Init /\ brokerUp = TRUE

SpecWaitLive ==
    /\ WaitInit
    /\ [][WaitNext]_vars
    /\ WF_vars(Tick)
    /\ \A w \in WaitIds : WF_vars(Timeout(w))

\* The same, with captains whose clients give up waiting.
DisconnectNext ==
    \/ \E p \in Procs : Boot(p)
    \/ \E i \in CreateIds, u \in Users, pk \in Pickups, d \in Destinations :
          CreateRideSave(i, u, pk, d)
    \/ \E i \in CreateIds : CreateRidePublish(i)
    \/ LoadController
    \/ \E w \in WaitIds : WaitForNewRide(w)
    \/ \E w \in WaitIds : Timeout(w)
    \/ \E w \in WaitIds : Disconnect(w)
    \/ DeliverNewRide
    \/ Tick

SpecDisconnect == WaitInit /\ [][DisconnectNext]_vars

\* The captain service scaled out to two processes on one "new-ride" queue.
ReplicaNext ==
    \/ \E p \in Procs : Boot(p)
    \/ \E i \in CreateIds, u \in Users, pk \in Pickups, d \in Destinations :
          CreateRideSave(i, u, pk, d)
    \/ \E i \in CreateIds : CreateRidePublish(i)
    \/ LoadController
    \/ \E w \in WaitIds : WaitForNewRide(w)
    \/ \E w \in WaitIds : Timeout(w)
    \/ DeliverNewRide
    \/ ReplicaLoadController
    \/ ReplicaDeliverNewRide
    \/ Tick

SpecReplica == WaitInit /\ [][ReplicaNext]_vars

\* The message bus of both services: connecting and reconnecting, the ride
\* service publishing, the captain service subscribing and consuming.
BusNext ==
    \/ \E p \in Procs : Boot(p)
    \/ \E p \in Procs : RetryConnect(p)
    \/ BrokerDown
    \/ BrokerUp
    \/ \E i \in CreateIds, u \in Users, pk \in Pickups, d \in Destinations :
          CreateRideSave(i, u, pk, d)
    \/ \E i \in CreateIds : CreateRidePublish(i)
    \/ LoadController
    \/ OtherPublisher
    \/ DeliverNewRide
    \/ Tick

SpecBus == Init /\ [][BusNext]_vars

\* The event loop runs a retry timer that has run out, and time passes.
SpecBusLive ==
    /\ Init
    /\ [][BusNext]_vars
    /\ WF_vars(Tick)
    /\ \A p \in Procs : WF_vars(RetryConnect(p))

Spec == Init /\ [][Next]_vars

\* ================================================================ claims
\* ------------------------------------------------------------ ride service
\* The acceptRide requests made on ride id r.
AcceptsOn(r) == {i \in AcceptIds : accepts[i].pc # "idle" /\ accepts[i].rideId = r}

Succeeded(i) == accepts[i].pc = "done" /\ accepts[i].res.code = 200
Conflicted(i) ==
    /\ accepts[i].pc = "done"
    /\ accepts[i].res.code = 400
    /\ accepts[i].res.message = AlreadyMessage(accepts[i].ride.status)
    /\ accepts[i].ride._id = accepts[i].rideId

\* The fields of the JSON text carried by the k-th message handed to sendToQueue.
SentFields(k) == BufferToString(sent[k].content).v

\* C1: of N >= 2 acceptRide calls with distinct driver ids on the same stored
\* ride, however their find, check and write steps interleave, exactly one
\* returns success and each of the others returns Conflict.
C1_ExactlyOneAcceptSucceeds ==
    \A r \in {ObjectIds[n] : n \in DOMAIN rides} :
        LET S == AcceptsOn(r) IN
        ( /\ Cardinality(S) >= 2
          /\ \A i \in S : accepts[i].pc = "done" /\ accepts[i].res.code # 404
          /\ \A i, j \in S : i # j => accepts[i].captainId # accepts[j].captainId )
        => /\ Cardinality({i \in S : Succeeded(i)}) = 1
           /\ \A i \in S : Succeeded(i) \/ Conflicted(i)

\* The status changes the ride state machine allows.
AllowedTransitions ==
    { <<"requested", "accepted">>, <<"accepted", "started">>,
      <<"started", "completed">>, <<"requested", "cancelled">>,
      <<"accepted", "cancelled">> }

\* C3: every change of a ride's status is one of requested->accepted,
\* accepted->started, started->completed, requested->cancelled,
\* accepted->cancelled; a stored ride stays stored and a new ride starts at
\* requested.
C3_StatusTransitions ==
    [][ /\ Len(rides') >= Len(rides)
        /\ \A n \in DOMAIN rides :
              rides'[n].status # rides[n].status
                 => <<rides[n].status, rides'[n].status>> \in AllowedTransitions
        /\ \A n \in DOMAIN rides' \ DOMAIN rides : rides'[n].status = "requested"
      ]_vars

\* C3 witness: a ride has been accepted and a later acceptRide on it, finding
\* it accepted, was rejected.
C3_Witness ==
    \E i, j \in AcceptIds :
        /\ Succeeded(i) /\ Conflicted(j)
        /\ accepts[i].rideId = accepts[j].rideId
        /\ rides[FindById(accepts[i].rideId)].status = "accepted"

\* C4: once a ride's captain is set, no later step changes it to another value.
C4_CaptainImmutable ==
    [][ \A n \in DOMAIN rides :
            rides[n].captain # "null" => rides'[n].captain = rides[n].captain ]_vars

\* The k-th message sent is the "new-ride" message of the stored ride n as it
\* was persisted: status requested, same id, user, pickup and destination.
IsNewRideMessageOf(k, n) ==
    /\ sent[k].queue = "new-ride"
    /\ SentFields(k).rideId      = JsString(rides[n]._id)
    /\ SentFields(k).userId      = JsString(rides[n].user)
    /\ SentFields(k).pickup      = JsString(rides[n].pickup)
    /\ SentFields(k).destination = JsString(rides[n].destination)
    /\ SentFields(k).status      = JsString("requested")

\* The number of "new-ride" messages sent for the ride with id r.
NewRideMessages(r) ==
    Cardinality({k \in DOMAIN sent :
        sent[k].queue = "new-ride" /\ SentFields(k).rideId = JsString(r)})

\* What C9 says of every createRide that persisted a ride, but for the number
\* of messages: the ride was stored as requested with no captain, and no
\* "new-ride" message exists that is not the message of a stored ride.
C9_PersistedBeforePublished ==
    /\ \A i \in CreateIds : creates[i].pc \in {"saved", "done"} /\ creates[i].res.code # 400 =>
          /\ creates[i].ride.status = "requested"
          /\ creates[i].ride.captain = "null"
          /\ FindById(creates[i].ride._id) # 0
          /\ creates[i].pc = "saved" => NewRideMessages(creates[i].ride._id) = 0
    /\ \A k \in DOMAIN sent : sent[k].queue = "new-ride" =>
          \E n \in DOMAIN rides : IsNewRideMessageOf(k, n)

\* C9 as stated: every successful createRide (201) has published exactly one
\* "new-ride" message for its ride, after persisting it.
C9_AsStated ==
    /\ C9_PersistedBeforePublished
    /\ \A i \in CreateIds : creates[i].pc = "done" /\ creates[i].res.code = 201 =>
          NewRideMessages(creates[i].ride._id) = 1

\* C9 amended: a successful createRide has published exactly one "new-ride"
\* message for its ride when publishToQueue had an open channel, and none when
\* publishToQueue logged "Channel not available" or "Error publishing to
\* queue"; the ride is persisted before any message for it exists.
C9_PublishedOnceIfChannelOpen ==
    /\ C9_PersistedBeforePublished
    /\ \A i \in CreateIds : creates[i].pc = "done" /\ creates[i].res.code = 201 =>
          NewRideMessages(creates[i].ride._id) = (IF creates[i].log = "" THEN 1 ELSE 0)

\* C9 witness: a createRide answered 201 after its message was sent.
C9_Witness ==
    \E i \in CreateIds :
        /\ creates[i].pc = "done" /\ creates[i].res.code = 201 /\ creates[i].log = ""
        /\ NewRideMessages(creates[i].ride._id) = 1

\* The k-th message sent is the "ride-accepted" message of request i.
IsAcceptedMessageOf(k, i) ==
    /\ sent[k].queue = "ride-accepted"
    /\ SentFields(k).rideId    = JsString(accepts[i].rideId)
    /\ SentFields(k).captainId = JsString(accepts[i].captainId)
    /\ SentFields(k).status    = JsString("accepted")

AcceptedMessages == {k \in DOMAIN sent : sent[k].queue = "ride-accepted"}

\* What C10 says but for the number of messages: every "ride-accepted" message
\* is the message of a successful acceptRide whose ride is stored as accepted
\* (the save came first), and a request that was rejected or has not saved yet
\* has sent nothing.
C10_PublishedAfterCommit ==
    /\ \A k \in AcceptedMessages :
          \E i \in AcceptIds :
              /\ IsAcceptedMessageOf(k, i)
              /\ Succeeded(i)
              /\ rides[FindById(accepts[i].rideId)].status = "accepted"
    /\ Cardinality(AcceptedMessages) <= Cardinality({i \in AcceptIds : Succeeded(i)})

\* C10 as stated: every successful acceptRide has published its message, and
\* there are as many messages as successful requests.
C10_AsStated ==
    /\ C10_PublishedAfterCommit
    /\ \A i \in AcceptIds : Succeeded(i) => \E k \in AcceptedMessages : IsAcceptedMessageOf(k, i)
    /\ Cardinality(AcceptedMessages) = Cardinality({i \in AcceptIds : Succeeded(i)})

\* C10 amended: a successful acceptRide has published its "ride-accepted"
\* message when publishToQueue had an open channel and nothing when it logged
\* an error; a message is sent only after the save, and a rejected acceptRide
\* sends nothing.
C10_PublishedIfChannelOpen ==
    /\ C10_PublishedAfterCommit
    /\ \A i \in AcceptIds : Succeeded(i) /\ accepts[i].log = "" =>
          \E k \in AcceptedMessages : IsAcceptedMessageOf(k, i)
    /\ Cardinality(AcceptedMessages)
          = Cardinality({i \in AcceptIds : Succeeded(i) /\ accepts[i].log = ""})

\* C10 witness: one acceptRide succeeded and published, another was rejected.
C10_Witness ==
    \E i, j \in AcceptIds :
        /\ Succeeded(i) /\ accepts[i].log = ""
        /\ \E k \in AcceptedMessages : IsAcceptedMessageOf(k, i)
        /\ Conflicted(j)

\* --------------------------------------------------------- captain service
\* Waiter w is registered and unresolved: nothing was written to its response.
Pending(w) == waits[w].timer # "unset" /\ waits[w].calls = <<>>

\* The step is the consume callback handling the oldest "new-ride" message.
HandlesNewRide ==
    /\ "new-ride" \in consumers["captain"]
    /\ queues["new-ride"] # <<>>
    /\ queues'["new-ride"] = Tail(queues["new-ride"])
    /\ brokerUp' = brokerUp

\* The event being handled, as published: the object its JSON text encodes.
EventHandled == JSONparse(BufferToString(Head(queues["new-ride"]).content)).value

\* The response that notifies a waiter of the event e.
Notified(e) == [status |-> 200, message |-> "New ride available", ride |-> e]

\* C2: a waiter is resolved at most once: over its lifetime at most one
\* response is written for it, by the deadline timer or by the handling of a
\* "new-ride" event, and the side that comes second writes nothing.
C2_ResolvedAtMostOnce ==
    \A w \in WaitIds : Len(waits[w].calls) <= 1

\* C5: when a "new-ride" event is handled, every waiter registered and still
\* pending is given the payload that was published, the same for all of them.
C5_PendingWaitersGetTheEvent ==
    [][ HandlesNewRide =>
          \A w \in WaitIds :
              Pending(w) => waits'[w].calls = <<Notified(EventHandled)>> ]_vars

\* C7: a waiter not yet registered when the handling of a "new-ride" event
\* begins is untouched by it, and pendingRequests after the handling holds
\* none of the waiters it held when the handling began.
C7_DrainClearsTheSet ==
    [][ HandlesNewRide =>
          /\ \A w \in WaitIds : waits[w].timer = "unset" => waits'[w] = waits[w]
          /\ \A k \in DOMAIN pendingRequests, j \in DOMAIN pendingRequests' :
                pendingRequests'[j] # pendingRequests[k] ]_vars

\* C8: with the bus connected and the captain service subscribed, a wait call
\* that was made before a ride was created and is still pending when that
\* ride's event reaches the captain service is resolved by it with the ride's
\* id, pickup and destination.
C8_PendingWaitResolvedWithRide ==
    [][ HandlesNewRide =>
          LET n == FindById(EventHandled.v.rideId.v) IN
          /\ n # 0
          /\ \A w \in WaitIds :
                Pending(w) /\ waits[w].t0 < rides[n].createdAt =>
                   /\ Len(waits'[w].calls) = 1
                   /\ waits'[w].calls[1].status = 200
                   /\ waits'[w].calls[1].ride.t = "object"
                   /\ waits'[w].calls[1].ride.v.rideId = JsString(rides[n]._id)
                   /\ waits'[w].calls[1].ride.v.pickup = JsString(rides[n].pickup)
                   /\ waits'[w].calls[1].ride.v.destination = JsString(rides[n].destination)
      ]_vars

\* The response of a wait call that ends with no ride.
NoRide == [status |-> 204, message |-> "", ride |-> JsNull]

\* C6: a waiter that no "new-ride" event resolves is given the empty "no
\* ride" outcome by its own timeout: not before 30 seconds have passed since
\* it registered, and it does not stay pending forever.
C6_TimeoutResolvesWithNoRide ==
    /\ [][ \A w \in WaitIds :
              /\ (Pending(w) /\ ~Pending(w)' /\ ~HandlesNewRide) =>
                    waits'[w].calls = <<NoRide>>
              /\ (Len(waits'[w].calls) > Len(waits[w].calls)
                    /\ waits'[w].calls[Len(waits'[w].calls)] = NoRide) =>
                    now >= waits[w].t0 + LONG_POLL_TIMEOUT ]_vars
    /\ \A w \in WaitIds : Pending(w) ~> ~Pending(w)

\* C6 witness: a waiter was resolved with "no ride" and no event was ever
\* published.
C6_Witness ==
    \E w \in WaitIds :
        /\ waits[w].calls = <<NoRide>>
        /\ sent = <<>>
        /\ now >= waits[w].t0 + LONG_POLL_TIMEOUT

\* ------------------------------------------------- acceptRide's rejections
\* Request i starts in this step: its findById reads the collection.
AcceptStarts(i) == accepts[i].pc = "idle" /\ accepts'[i].pc # "idle"

\* The stored rides with id r, as the step finds them.
StoredWithId(r) == {n \in DOMAIN rides : rides[n]._id = r}

\* C11: an acceptRide that finds its ride with a status other than requested
\* is answered at once with "Ride is already <status>", naming the status it
\* found; the collection is left as it was and nothing is published, then or
\* later by that request.
C11_NotRequestedIsRejected ==
    [][ \A i \in AcceptIds :
          /\ \A n \in StoredWithId(accepts'[i].rideId) :
                (AcceptStarts(i) /\ rides[n].status # "requested") =>
                   /\ accepts'[i].pc = "done"
                   /\ accepts'[i].res = Response(400, AlreadyMessage(rides[n].status))
                   /\ rides' = rides
                   /\ sent' = sent /\ queues' = queues
          /\ accepts[i].pc = "done" => accepts'[i] = accepts[i] ]_vars

\* C11 witness: a ride accepted by one captain, and another captain's
\* acceptRide on it rejected with "Ride is already accepted"; the ride still
\* has the first captain.
C11_Witness ==
    \E j \in AcceptIds :
        /\ accepts[j].pc = "done"
        /\ accepts[j].res = Response(400, "Ride is already accepted")
        /\ \E n \in StoredWithId(accepts[j].rideId) :
              /\ rides[n].status = "accepted"
              /\ rides[n].captain # accepts[j].captainId
        /\ \A k \in AcceptedMessages : ~IsAcceptedMessageOf(k, j)

PublishFailed(i) ==
    creates[i].pc = "done" /\ creates[i].res.code = 201 /\ creates[i].log # ""

\* Some response written for waiter w carries the ride with id r.
NotifiedOfRide(w, r) ==
    \E k \in DOMAIN waits[w].calls :
        /\ waits[w].calls[k].ride.t = "object"
        /\ waits[w].calls[k].ride.v.rideId.v = r

\* C13: when the publishToQueue of a createRide sends nothing (no channel, or
\* a closed one), createRide still answers 201 with the ride it saved, the
\* ride stays stored as it was saved, with status requested, no "new-ride"
\* message for it exists and no waiter is ever answered with it.
C13_FailedPublishKeepsTheRide ==
    /\ [][ \A i \in CreateIds :
              (creates[i].pc = "saved" /\ creates'[i].pc = "done" /\ channel["ride"] # "open") =>
                 /\ creates'[i].res = Response(201, "Ride created and published")
                 /\ creates'[i].log # ""
                 /\ rides' = rides
                 /\ sent' = sent /\ queues' = queues ]_vars
    /\ [](\A i \in CreateIds : PublishFailed(i) =>
              /\ \E n \in DOMAIN rides :
                    rides[n] = creates[i].ride /\ rides[n].status = "requested"
              /\ NewRideMessages(creates[i].ride._id) = 0
              /\ \A w \in WaitIds : ~NotifiedOfRide(w, creates[i].ride._id))

\* C13 witness: a createRide answered 201 without sending, while the captain
\* service consumes "new-ride" and a waiter is pending.
C13_Witness ==
    \E i \in CreateIds :
        /\ PublishFailed(i)
        /\ \E n \in DOMAIN rides : rides[n] = creates[i].ride
        /\ "new-ride" \in consumers["captain"]
        /\ \E w \in WaitIds : Pending(w)

\* --------------------------------------------------- createRide's validation
\* The createRide requests that got past the validation.
Validated == {i \in CreateIds : creates[i].pc \in {"saved", "done"} /\ creates[i].res.code # 400}

\* C14: a createRide whose pickup or destination is empty or missing is
\* answered 400 and does nothing more: no ride is inserted and no "new-ride"
\* message is sent, so every stored ride and every message is that of a
\* request that passed the validation.
C14_InvalidCreateIsRejected ==
    /\ [][ \A i \in CreateIds, u \in Users, pk \in Pickups, d \in Destinations :
              ((pk = "" \/ d = "") /\ CreateRideSave(i, u, pk, d)) =>
                 /\ creates'[i].pc = "done"
                 /\ creates'[i].res = Response(400, "Pickup and destination are required")
                 /\ rides' = rides
                 /\ sent' = sent /\ queues' = queues ]_vars
    /\ [][ \A i \in CreateIds : creates[i].res.code = 400 => creates'[i] = creates[i] ]_vars
    /\ [](/\ Len(rides) = Cardinality(Validated)
          /\ \A n \in DOMAIN rides : rides[n].pickup # "" /\ rides[n].destination # ""
          /\ \A k \in DOMAIN sent : sent[k].queue = "new-ride" =>
                SentFields(k).pickup # JsString("") /\ SentFields(k).destination # JsString(""))

\* C14 witness: one createRide was rejected for a missing field, another has
\* stored and published its ride, and there is one ride and one message.
C14_Witness ==
    \E i, j \in CreateIds :
        /\ creates[i].pc = "done" /\ creates[i].res.code = 400
        /\ creates[j].pc = "done" /\ creates[j].res.code = 201 /\ creates[j].log = ""
        /\ Len(rides) = 1
        /\ Len(sent) = 1

\* ------------------------------------------------------------ the message bus
\* Process p has called connect() and has never had a channel.
NeverConnected(p) ==
    /\ channel[p] = "undefined"
    /\ booted[p] \/ (p = "captain" /\ controllerLoaded /\ rabbit[p] = LLD)

\* C15: a connect() that fails leaves `channel` as it was and arms one timer
\* of 5000 ms that calls connect() again, so a process that has called
\* connect() and has no channel yet always has a retry armed; and when the
\* broker is up from some time on, a process that starts gets its channel.
C15_ConnectRetriesUntilConnected ==
    /\ [][ \A p \in Procs :
              /\ (~brokerUp /\ Boot(p)) =>
                    /\ channel' = channel
                    /\ retryTimers'[p] = Append(retryTimers[p], RETRY_DELAY)
              /\ (~brokerUp /\ RetryConnect(p)) =>
                    /\ channel' = channel
                    /\ retryTimers'[p] = Append(Tail(retryTimers[p]), RETRY_DELAY)
              /\ \A k \in DOMAIN retryTimers'[p] :
                    (k > Len(retryTimers[p]) \/ retryTimers'[p][k] > retryTimers[p][k]) =>
                        retryTimers'[p][k] = RETRY_DELAY ]_vars
    /\ [](\A p \in Procs : NeverConnected(p) => retryTimers[p] # <<>>)
    /\ \A p \in Procs : (<>[]brokerUp /\ <>booted[p]) => <>(channel[p] = "open")

\* C15 witness: a process whose connect() failed has no channel yet, the
\* timer the failure armed has run its 5000 ms, and the broker is up again.
C15_Witness ==
    \E p \in Procs :
        /\ booted[p] /\ channel[p] = "undefined"
        /\ retryTimers[p] = <<0>>
        /\ brokerUp
        /\ now > 0

\* The step is the publishToQueue of a createRide request.
CreatePublishes(i) == creates[i].pc = "saved" /\ creates'[i].pc = "done"

\* The step is the subscribeToQueue("new-ride", ...) of the captain service.
Subscribes == ~controllerLoaded /\ controllerLoaded'

\* C16: a publishToQueue or subscribeToQueue called while the process has no
\* open channel (never connected, or the connection lost) sends no message,
\* registers no consumer, reports an error and leaves the bus as it was:
\* channel, retry timers and consumers.
C16_DisconnectedCallsAreNoOps ==
    [][ /\ \A i \in CreateIds :
              (CreatePublishes(i) /\ channel["ride"] # "open") =>
                 /\ sent' = sent /\ queues' = queues
                 /\ creates'[i].log # ""
                 /\ channel' = channel /\ retryTimers' = retryTimers
                 /\ consumers' = consumers
        /\ (Subscribes /\ channel["captain"] # "open") =>
                 /\ sent' = sent /\ queues' = queues
                 /\ consumers' = consumers /\ registered' = registered
                 /\ channel' = channel /\ retryTimers' = retryTimers ]_vars

\* C17: whenever the consume callback has run for a delivered message,
\* whether its handler worked, failed, or the decoding of the content threw,
\* the message has been acknowledged: it is no longer in the queue and is not
\* left unacknowledged at the broker, from where it would be delivered again.
C17_AcknowledgedAfterTheHandler ==
    [][ HandlesNewRide =>
          /\ Len(queues'["new-ride"]) = Len(queues["new-ride"]) - 1
          /\ unacked' = unacked ]_vars

\* The step gives process p a channel again after its connection was lost.
Reconnects(p) == channel[p] = "closed" /\ channel'[p] = "open"

\* C18: when a process whose connection was lost connects again, every queue
\* it had subscribed to before the loss is consumed again on the new channel,
\* so that a message published afterwards reaches the registered handler.
C18_SubscriptionsRestoredOnReconnect ==
    [][ \A p \in Procs : Reconnects(p) => registered[p] \subseteq consumers'[p] ]_vars

\* The step loses the established connection of process p.
LosesConnection(p) == channel[p] = "open" /\ channel'[p] = "closed"

\* C19: when the established connection of a process is lost, the process
\* arms the 5000 ms timer that calls connect(), as a failed connect() does.
C19_LostConnectionStartsRetrying ==
    [][ \A p \in Procs :
          LosesConnection(p) => retryTimers'[p] = Append(retryTimers[p], RETRY_DELAY) ]_vars

\* The message m waiting in queue q was sent by publishToQueue.
SentByPublish(q, m) ==
    \E k \in DOMAIN sent : sent[k].queue = q /\ sent[k].content = m.content

\* C20: every message publishToQueue sends goes to a queue it declared
\* durable and is marked persistent, and a restart of the broker loses none
\* of the messages publishToQueue sent that wait in a queue.
C20_PublishedDurableAndPersistent ==
    /\ [](\A k \in DOMAIN sent : sent[k].durable /\ sent[k].persistent)
    /\ [][ (brokerUp /\ ~brokerUp') =>
              \A q \in Queues : \A k \in DOMAIN queues[q] :
                  SentByPublish(q, queues[q][k]) =>
                      \E j \in DOMAIN queues'[q] : queues'[q][j] = queues[q][k] ]_vars

\* ------------------------------------------------------ the ride documents
\* C28: a stored ride with status requested has no captain and a stored ride
\* with status accepted has one: the save of acceptRide writes both fields
\* in one update, and no step changes one of the two without the other.
C28_CaptainSetWithAccepted ==
    /\ [](\A n \in DOMAIN rides :
             /\ rides[n].status = "requested" => rides[n].captain = "null"
             /\ rides[n].status = "accepted"  => rides[n].captain # "null")
    /\ [][ \A n \in DOMAIN rides :
              (rides[n].status = "requested" /\ rides'[n].status # "requested")
                 <=> (rides[n].captain = "null" /\ rides'[n].captain # "null") ]_vars

\* C28 witness: one ride accepted and holding its captain, another still
\* requested with none, while an acceptRide on the second has changed its
\* loaded document and not saved it yet.
C28_Witness ==
    \E n, m \in DOMAIN rides : \E i, j \in AcceptIds :
        /\ rides[n].status = "accepted" /\ rides[n].captain = accepts[i].captainId
        /\ Succeeded(i) /\ accepts[i].rideId = rides[n]._id
        /\ rides[m].status = "requested" /\ rides[m].captain = "null"
        /\ accepts[j].pc = "saving" /\ accepts[j].rideId = rides[m]._id

\* The step is a step of acceptRide request i.
AcceptSteps(i) == accepts'[i] # accepts[i]

C21_AtMostOneUnacknowledged ==
    /\ \A p \in Procs : consumers[p] # {} => Prefetch(rabbit[p]) = 1
    /\ Len(unacked) <= 1

\* ---------------------------------------------------- the pending requests
\* C25: every entry of pendingRequests belongs to a waiter that is still
\* unresolved, and no waiter has two entries: a waiter that expired or was
\* notified is no longer in the array.
C25_PendingSetHoldsUnresolved ==
    /\ \A k \in DOMAIN pendingRequests : Pending(pendingRequests[k].id)
    /\ \A j, k \in DOMAIN pendingRequests :
          pendingRequests[j].id = pendingRequests[k].id => j = k

\* The step is the timeout callback of waiter w.
Expires(w) == waits[w].timer = "armed" /\ waits'[w].timer = "fired"

\* The entries of the sequence entries that do not belong to waiter w.
EntriesOfOthers(entries, w) == SelectSeq(entries, LAMBDA e : e.id # w)

\* C27: the expiry of one waiter resolves that waiter with "no ride" and
\* removes its entry from pendingRequests; every other waiter and every other
\* entry is left as it was, in the same order.
C27_ExpiryRemovesOnlyItsWaiter ==
    [][ \A w \in WaitIds : Expires(w) =>
          /\ waits'[w].calls = Append(waits[w].calls, NoRide)
          /\ \A v \in WaitIds \ {w} : waits'[v] = waits[v]
          /\ pendingRequests' = EntriesOfOthers(pendingRequests, w) ]_vars

\* ------------------------------------------------------ the retry of connect
\* C26: a service has at most one retry of connect() pending at any moment,
\* whatever was published, subscribed or lost while it was disconnected, and
\* a connect() that runs while the channel is open leaves the channel and its
\* consumers as they were.
C26_OneRetryPending ==
    /\ [](\A p \in Procs : Len(retryTimers[p]) <= 1)
    /\ [][ \A p \in Procs :
              (channel[p] = "open" /\ Len(retryTimers'[p]) < Len(retryTimers[p])) =>
                 /\ channel'[p] = channel[p]
                 /\ consumers'[p] = consumers[p] ]_vars

\* ------------------------------------------------- encoding and decoding
\* The bytes b of a message decoded once: the string they hold, parsed.
DecodedOnce(b) == JSONparse(BufferToString(b))

\* The `rideData` the "new-ride" handler works with for the message msg: its
\* own JSON.parse of what the consume callback passed to it.
HandlerRideData(listing, msg) == JSONparse(Delivered(listing, msg))

\* C24: the bytes publishToQueue sent for a "new-ride" event decode, in one
\* JSON.parse, to a value equal in every field to the rideData object that
\* createRide built, and the value the handler works with is that value,
\* decoded exactly once.
C24_RoundTripDecodedOnce ==
    /\ [](\A k \in DOMAIN sent : sent[k].queue = "new-ride" =>
             \E i \in CreateIds :
                /\ creates[i].pc = "done"
                /\ DecodedOnce(sent[k].content).ok
                /\ DecodedOnce(sent[k].content).value = RideData(creates[i].ride))
    /\ [][ (HandlesNewRide /\ DecodedOnce(Head(queues["new-ride"]).content).ok) =>
             LET msg == Head(queues["new-ride"]) IN
             /\ HandlerRideData(rabbit["captain"], msg).ok
             /\ HandlerRideData(rabbit["captain"], msg).value = DecodedOnce(msg.content).value
          ]_vars

\* ------------------------------------------- subscribing with no channel
\* The captain service's subscribeToQueue ran, with the ride service's bus
\* file, and registered no consumer.
SubscribedInVain ==
    controllerLoaded /\ rabbit["captain"] = SRC /\ registered["captain"] = {}

C22_DisconnectReleasesTheWaiter ==
    \A w \in WaitIds : waits[w].closed =>
        /\ \A k \in DOMAIN pendingRequests : pendingRequests[k].id # w
        /\ waits[w].timer # "armed"

\* ------------------------------------------- two captain-service processes
\* The step delivers the oldest "new-ride" message to a consumer while both
\* processes of the captain service consume the queue.
ConsumedWithTwoProcesses ==
    /\ "new-ride" \in consumers["captain"]
    /\ replica.subscribed
    /\ queues["new-ride"] # <<>>
    /\ queues'["new-ride"] = Tail(queues["new-ride"])

\* C23: with two processes of the captain service subscribed to "new-ride",
\* a published event that is consumed is consumed by both processes, and
\* every captain waiting at that moment is notified of it.
C23_EveryProcessGetsTheEvent ==
    [][ ConsumedWithTwoProcesses =>
          /\ replica'.consumed = replica.consumed + 1
          /\ \A w \in WaitIds :
                Pending(w) => waits'[w].calls = <<Notified(EventHandled)>> ]_vars
====
